---- MODULE Spec2Model ----
(***************************************************************************)
(* Job scraping, deduplication and enrichment pipeline of autoapply-be.    *)
(*                                                                         *)
(*   src/jobs/routers.py   search_jobs (the orchestration run),            *)
(*                         create_job_from_url, get_job_by_id              *)
(*   src/jobs/services.py  LinkedInJobScraper.search_jobs / parse_job_card *)
(*                         / get_job_details                               *)
(*   src/jobs/models.py    JobListing (the listing store)                  *)
(*   src/jobs/schemas.py   JobListingSchema                                *)
(*                                                                         *)
(* A request handler is cut into steps at its suspension points: the       *)
(* network calls, the rate-limit sleeps and the store accesses.  The       *)
(* external site is the environment: every page fetch draws either a       *)
(* transport failure or a page from a bounded set of pages.                *)
(***************************************************************************)
EXTENDS Integers, Sequences, FiniteSets, TLC

\* ---------------------------------------------------------------- bounds
MaxProfiles == 2      \* search profiles of the user, 0..MaxProfiles
MaxLimit    == 3      \* payload.limit, 0..MaxLimit (0 and None mean "default")
MaxRuns     == 2      \* orchestration requests served one after the other
MaxCfu      == 2      \* create-from-url requests interleaved with the runs
MaxShareL   == 12     \* limits of the share computation checked on its own
MaxShareN   == 4      \* profile counts of the share computation
MaxAppReqs  == 2      \* create_job_application requests
MaxCleanups == 1      \* runs of the cleanup command

\* ------------------------------------------------------- program constants
DefaultLimit == 25    \* total_limit = payload.limit or 25
PageSize     == 25    \* start += 25
NoCount      == -1    \* applicants_count = NULL
EnrichDelay  == 2     \* time.sleep(2) between enrichment requests
PageDelay    == 1     \* time.sleep(1) between result pages

None == "None"        \* Python None / a key missing from a dict
JobIds == {"101", "102", "103"}

Falsy(v) == v \in {None, ""}

\* ------------------------------------------------------------- sequences
Range(s) == {s[i] : i \in 1..Len(s)}

\* Python slice s[:k] for k >= 0
Take(s, k) == IF k >= Len(s) THEN s ELSE SubSeq(s, 1, k)

Reverse(s) == [i \in 1..Len(s) |-> s[Len(s) + 1 - i]]

SeqsUpTo(S, k) == UNION {[1..m -> S] : m \in 0..k}

NoDup(s) == \A i, j \in 1..Len(s) : i # j => s[i] # s[j]

\* ------------------------------------------------------------------ urls
ViewUrl(id) == <<"https://www.linkedin.com/jobs/view", id>>
SlugUrl(id) == <<"https://at.linkedin.com/jobs/view/title-at-company", id>>

\* ------------------------------------------------ external site: result page
\* A job card of a result page.  jid is the posting the card is about; urn says
\* whether the card carries data-entity-urn; href is the form of its
\* base-card__full-link ("none": no link, "slug": /jobs/view/<words>-<id>,
\* "numeric": /jobs/view/<id>?<query>, "broken": a link the parser raises on);
\* title says whether the h3 title exists.
Card(jid, urn, href, title) == [jid |-> jid, urn |-> urn, href |-> href, title |-> title]

Cards ==
    {Card(j, TRUE, "none", TRUE) : j \in JobIds}
    \cup {Card("101", TRUE, "slug", TRUE),        \* a second URL for 101
          Card("101", FALSE, "numeric", TRUE),    \* id only in the link
          Card("102", FALSE, "slug", TRUE),       \* no extractable id
          Card("103", TRUE, "slug", FALSE),       \* no title element
          Card("102", FALSE, "broken", TRUE)}     \* parsing raises

\* Result pages of at most two cards
Pages == {<<>>} \cup {<<c>> : c \in Cards} \cup {<<c, d>> : c, d \in Cards}

\* A page fetch: session.get raised or answered non-2xx (ok = FALSE), or a page
PageFetch(ok, cards) == [ok |-> ok, cards |-> cards]

PageFetches == {PageFetch(FALSE, <<>>)} \cup {PageFetch(TRUE, p) : p \in Pages}

\* The pages the site serves to the searches of an orchestration run: cards
\* that parse, one posting under two URLs
RunCards == {c \in Cards : c.urn /\ c.title}

RunPageFetches ==
    {PageFetch(FALSE, <<>>), PageFetch(TRUE, <<>>)}
    \cup {PageFetch(TRUE, <<c>>) : c \in RunCards}
    \cup {PageFetch(TRUE, <<c, d>>) : c, d \in RunCards}

\* What the site answers to the successive page fetches of one search call
RunFetchSeqs ==
    {<<f>> : f \in RunPageFetches} \cup {<<f, g>> : f, g \in RunPageFetches}

NoJob == [is_none |-> TRUE, job_id |-> None, linkedin_url |-> <<None, None>>]

\* A parser that does not give up on a card without a title
ParseJobCardNoTitleCheck(card) ==
    LET job_id == IF card.urn THEN card.jid
                  ELSE IF card.href = "numeric" THEN card.jid
                  ELSE None
        url == IF card.href = "slug" THEN SlugUrl(card.jid) ELSE ViewUrl(card.jid)
    IN  IF card.href = "broken" \/ Falsy(job_id) THEN NoJob
        ELSE [is_none |-> FALSE, job_id |-> job_id, linkedin_url |-> url]

\* LinkedInJobScraper.parse_job_card: None, or the job_data of the card (of
\* which the search keeps job_id and linkedin_url only).  An exception while
\* parsing is caught and None returned.
ParseJobCard(card) ==
    LET job_id == IF card.urn THEN card.jid
                  ELSE IF card.href = "numeric" THEN card.jid
                  ELSE None
        url == IF card.href = "slug" THEN SlugUrl(card.jid) ELSE ViewUrl(card.jid)
    IN  IF card.href = "broken" THEN NoJob
        ELSE IF Falsy(job_id) THEN NoJob
        ELSE IF ~card.title THEN NoJob
        ELSE [is_none |-> FALSE, job_id |-> job_id, linkedin_url |-> url]

\* A duplicate test that forgets seen_job_ids
IsNewJobNoSeen(job_id, seen) == ~Falsy(job_id)

\* The duplicate test of the card loop: job_id and job_id not in seen_job_ids
IsNewJob(job_id, seen) == ~Falsy(job_id) /\ job_id \notin seen

Stub(job_id, url) == [job_id |-> job_id, linkedin_url |-> url]

\* The card loop of LinkedInJobScraper.search_jobs over one page, from card i:
\* acc = [jobs, seen, found, dups] are jobs, seen_job_ids, jobs_found_on_page
\* and the number of "Skipping duplicate job" lines logged.
RECURSIVE ProcessCards(_, _, _, _)
ProcessCards(cards, i, acc, limit) ==
    IF i > Len(cards) THEN acc
    ELSE IF Len(acc.jobs) >= limit THEN acc
    ELSE LET job_data == ParseJobCard(cards[i])
         IN  IF ~job_data.is_none /\ IsNewJob(job_data.job_id, acc.seen)
             THEN ProcessCards(cards, i + 1,
                      [jobs  |-> Append(acc.jobs, Stub(job_data.job_id, job_data.linkedin_url)),
                       seen  |-> acc.seen \cup {job_data.job_id},
                       found |-> acc.found + 1,
                       dups  |-> acc.dups], limit)
             ELSE IF ~job_data.is_none /\ ~Falsy(job_data.job_id)
             THEN ProcessCards(cards, i + 1, [acc EXCEPT !.dups = @ + 1], limit)
             ELSE ProcessCards(cards, i + 1, acc, limit)

\* A break test that looks at the limit and at empty pages only
PageEndsSearchLimitOnly(cards, acc, limit) ==
    Len(cards) = 0 \/ Len(acc.jobs) >= limit

\* The break test after the card loop (also: no job cards on the page)
PageEndsSearch(cards, acc, limit) ==
    Len(cards) = 0 \/ acc.found = 0 \/ Len(acc.jobs) >= limit

\* What a search call hands to its caller: the stubs, or the raised exception
SearchStubs(jobs, limit) == [kind |-> "stubs", stubs |-> Take(jobs, limit)]

SearchJobsSwallowError(jobs, limit) == SearchStubs(jobs, limit)

\* except requests.RequestException: raise Exception(...)
SearchJobsOnError(jobs, limit) == [kind |-> "error", stubs |-> <<>>]

NoReturn == [kind |-> "none", stubs |-> <<>>]

\* LinkedInJobScraper.search_jobs as a whole, the site answering the page
\* fetches with fs[i], fs[i+1], ...; kind "more" when the call would fetch a
\* page beyond fs, with the number of fetches issued.
RECURSIVE SearchJobs(_, _, _, _)
SearchJobs(fs, i, acc, limit) ==
    IF Len(acc.jobs) >= limit
    THEN [ret |-> SearchStubs(acc.jobs, limit), fetched |-> i - 1]
    ELSE IF i > Len(fs)
    THEN [ret |-> [kind |-> "more", stubs |-> <<>>], fetched |-> i - 1]
    ELSE IF ~fs[i].ok
    THEN [ret |-> SearchJobsOnError(acc.jobs, limit), fetched |-> i]
    ELSE LET nxt == ProcessCards(fs[i].cards, 1, [acc EXCEPT !.found = 0], limit)
         IN  IF PageEndsSearch(fs[i].cards, nxt, limit)
             THEN [ret |-> SearchStubs(nxt.jobs, limit), fetched |-> i]
             ELSE SearchJobs(fs, i + 1, nxt, limit)

NoJobs == [jobs |-> <<>>, seen |-> {}, found |-> 0, dups |-> 0]

\* A whole search call with limit l, answered by exactly the fetches of fs
SearchCall(fs, l) == SearchJobs(fs, 1, NoJobs, l)

\* Everything a search call can hand back to the router, as pairs <<limit,
\* result>>, over the answers of the site: the fetches of fs are the ones the
\* call issues
RunSearchResults ==
    UNION {{<<l, SearchCall(fs, l).ret>> :
               fs \in {g \in RunFetchSeqs :
                          /\ SearchCall(g, l).ret.kind # "more"
                          /\ SearchCall(g, l).fetched = Len(g)}} :
           l \in 1..DefaultLimit}

\* ------------------------------------------------ external site: detail page
\* What the detail page of a posting shows: a field is None when its element
\* is missing from the page.  "LONG" is a title of more than 500 characters.
DetailPage(title, description, employment_type, experience_level, applicants) ==
    [title |-> title, description |-> description,
     employment_type |-> employment_type, experience_level |-> experience_level,
     applicants |-> applicants]

\* The detail pages the site may serve for a posting: complete, without a
\* title, with an overlong title; the page of 101 is edited over time
DetailPages(job_id) ==
    {DetailPage("T", "D1", "full_time", "entry_level", 5),
     DetailPage(None, "D1", "full_time", "entry_level", 5),
     DetailPage("LONG", "D1", "full_time", "entry_level", 5)}
    \cup (IF job_id = "101"
          THEN {DetailPage("T", "D2", "contract", "director", 9),
                DetailPage("T", "", None, None, NoCount)}
          ELSE {})

\* A detail fetch: session.get raised or answered non-2xx (ok = FALSE), or a page
FetchOutcomes(job_id) ==
    {[ok |-> FALSE, page |-> DetailPage(None, None, None, None, NoCount)]}
    \cup {[ok |-> TRUE, page |-> p] : p \in DetailPages(job_id)}

NoDetails ==
    [is_none |-> TRUE, job_id |-> None, linkedin_url |-> <<None, None>>,
     title |-> None, description |-> None, employment_type |-> None,
     experience_level |-> None, applicants_count |-> NoCount]

\* The job_details dict built from a fetched page; a key the page does not
\* supply is missing from the dict (None here).  No test on the title.
DetailsOf(job_id, page) ==
    [is_none |-> FALSE, job_id |-> job_id, linkedin_url |-> ViewUrl(job_id),
     title |-> page.title, description |-> page.description,
     employment_type |-> page.employment_type,
     experience_level |-> page.experience_level,
     applicants_count |-> page.applicants]

\* A variant that gives up (None) on a page without a title
GetJobDetailsTitled(job_id, f) ==
    IF ~f.ok \/ Falsy(f.page.title) THEN NoDetails ELSE DetailsOf(job_id, f.page)

\* A variant that hands back an empty record, not None, when the fetch failed
GetJobDetailsEmptyOnError(job_id, f) == DetailsOf(job_id, f.page)

\* LinkedInJobScraper.get_job_details: every exception, the transport failure
\* of session.get / raise_for_status included, is caught and None returned.
GetJobDetails(job_id, f) ==
    IF ~f.ok THEN NoDetails ELSE DetailsOf(job_id, f.page)

\* ------------------------------------------------------------ listing store
\* JobListing rows in creation order (created_at ascending).
JobListing(d) ==
    [job_id |-> d.job_id, linkedin_url |-> d.linkedin_url, title |-> d.title,
     description |-> d.description, employment_type |-> d.employment_type,
     experience_level |-> d.experience_level,
     applicants_count |-> d.applicants_count]

StoredIds(st) == {st[i].job_id : i \in 1..Len(st)}

Row(st, job_id) == CHOOSE r \in Range(st) : r.job_id = job_id

\* A store write that replaces the row of a known job_id by the fresh data
CreateOrOverwrite(st, d) ==
    IF d.title = "LONG" THEN [ok |-> FALSE, store |-> st]
    ELSE IF d.job_id \in StoredIds(st)
    THEN [ok |-> TRUE,
          store |-> [i \in 1..Len(st) |->
                       IF st[i].job_id = d.job_id THEN JobListing(d) ELSE st[i]]]
    ELSE [ok |-> TRUE, store |-> Append(st, JobListing(d))]

\* A store write without the unique constraint on job_id
CreateDuplicate(st, d) ==
    IF d.title = "LONG" THEN [ok |-> FALSE, store |-> st]
    ELSE [ok |-> TRUE, store |-> Append(st, JobListing(d))]

\* JobListing.objects.create: raises (ok = FALSE, nothing written) on a job_id
\* already stored (unique=True) and on a title over max_length=500.
Create(st, d) ==
    IF d.title = "LONG" \/ d.job_id \in StoredIds(st)
    THEN [ok |-> FALSE, store |-> st]
    ELSE [ok |-> TRUE, store |-> Append(st, JobListing(d))]

\* JobListingSchema(...) as the handlers build it: is_enriched is never passed
JobListingSchema(job) ==
    [job_id |-> job.job_id, linkedin_url |-> job.linkedin_url, title |-> job.title,
     description |-> job.description, employment_type |-> job.employment_type,
     experience_level |-> job.experience_level,
     applicants_count |-> job.applicants_count, is_enriched |-> FALSE]

\* ------------------------------------------------------ search orchestrator
\* total_limit = payload.limit or 25
TotalLimit(lim) == IF lim = 0 THEN DefaultLimit ELSE lim

PerProfileBase(total, n) == total \div n

Remainder(total, n) == total % n

\* A split that hands the remainder to the profiles up to and including index
\* `remainder`
PerProfileLimitOffByOne(total, n, i) ==
    PerProfileBase(total, n) + (IF i <= Remainder(total, n) THEN 1 ELSE 0)

\* per_profile_limit = per_profile_base + (1 if idx < remainder else 0)
PerProfileLimit(total, n, i) ==
    PerProfileBase(total, n) + (IF i < Remainder(total, n) THEN 1 ELSE 0)

KnownIds(by_id) == {by_id[i].job_id : i \in 1..Len(by_id)}

\* A collection step that keeps every stub with an id, seen before or not
AddJobAlways(by_id, job_data) ==
    IF Falsy(job_data.job_id) THEN by_id ELSE Append(by_id, job_data)

\* A collection step without the membership test: the dict entry of a known
\* id is assigned again
AddJobLastWins(by_id, job_data) ==
    IF Falsy(job_data.job_id) THEN by_id
    ELSE IF job_data.job_id \in KnownIds(by_id)
    THEN [i \in 1..Len(by_id) |->
             IF by_id[i].job_id = job_data.job_id THEN job_data ELSE by_id[i]]
    ELSE Append(by_id, job_data)

\* if not job_id or job_id in jobs_by_id: continue;  jobs_by_id[job_id] = url
AddJob(by_id, job_data) ==
    IF Falsy(job_data.job_id) \/ job_data.job_id \in KnownIds(by_id)
    THEN by_id
    ELSE Append(by_id, job_data)

\* The loop over jobs_data; jobs_by_id is a dict, kept here in insertion order
RECURSIVE CollectUnique(_, _, _)
CollectUnique(by_id, jobs_data, i) ==
    IF i > Len(jobs_data) THEN by_id
    ELSE CollectUnique(AddJob(by_id, jobs_data[i]), jobs_data, i + 1)

\* unique_job_ids = list(jobs_by_id.keys())[:total_limit]
UniqueJobIds(by_id, total) == Take([i \in 1..Len(by_id) |-> by_id[i].job_id], total)

\* An existence check that finds nothing
ExistingJobsNone(st, ids) == {}

\* JobListing.objects.filter(job_id__in=unique_job_ids).values_list('job_id')
ExistingJobs(st, ids) == StoredIds(st) \cap Range(ids)

\* A partition that sends every unique id to enrichment, stored or not
JobsToEnrichAll(ids, existing) == ids

\* jobs_to_enrich = [job_id for job_id in unique_job_ids if job_id not in existing_jobs]
JobsToEnrich(ids, existing) == SelectSeq(ids, LAMBDA j : j \notin existing)

\* An enrichment step that stores whatever the detail fetch returned
EnrichOneUnchecked(st, job_id, details) ==
    LET c == Create(st, [details EXCEPT !.job_id = job_id])
    IN  IF c.ok THEN [store |-> c.store, enriched |-> 1, failed |-> 0, outcome |-> "stored"]
        ELSE [store |-> st, enriched |-> 0, failed |-> 1, outcome |-> "raised"]

\* A pass that counts the id as enriched and leaves the write for later
EnrichOneBatched(st, job_id, details) ==
    IF details.is_none
    THEN [store |-> st, enriched |-> 0, failed |-> 1, outcome |-> "no_details"]
    ELSE IF Falsy(details.title)
    THEN [store |-> st, enriched |-> 0, failed |-> 1, outcome |-> "no_title"]
    ELSE IF Create(st, [details EXCEPT !.job_id = job_id]).ok
    THEN [store |-> st, enriched |-> 1, failed |-> 0, outcome |-> "stored"]
    ELSE [store |-> st, enriched |-> 0, failed |-> 1, outcome |-> "raised"]

\* A pass whose except branch forgets failed_count += 1
EnrichOneRaiseUncounted(st, job_id, details) ==
    IF details.is_none
    THEN [store |-> st, enriched |-> 0, failed |-> 1, outcome |-> "no_details"]
    ELSE IF Falsy(details.title)
    THEN [store |-> st, enriched |-> 0, failed |-> 1, outcome |-> "no_title"]
    ELSE IF Create(st, [details EXCEPT !.job_id = job_id]).ok
    THEN [store |-> Create(st, [details EXCEPT !.job_id = job_id]).store,
          enriched |-> 1, failed |-> 0, outcome |-> "stored"]
    ELSE [store |-> st, enriched |-> 0, failed |-> 0, outcome |-> "raised"]

\* One pass of the enrichment loop body after the detail fetch
EnrichOne(st, job_id, details) ==
    IF details.is_none
    THEN [store |-> st, enriched |-> 0, failed |-> 1, outcome |-> "no_details"]
    ELSE IF Falsy(details.title)
    THEN [store |-> st, enriched |-> 0, failed |-> 1, outcome |-> "no_title"]
    ELSE LET c == Create(st, [details EXCEPT !.job_id = job_id])
         IN  IF c.ok
             THEN [store |-> c.store, enriched |-> 1, failed |-> 0, outcome |-> "stored"]
             ELSE [store |-> st, enriched |-> 0, failed |-> 1, outcome |-> "raised"]

\* A loop that gives up on the remaining ids when an enrichment raised
PcAfterEnrichBreak(outcome, done, n) ==
    IF outcome = "raised" THEN "respond"
    ELSE IF done < n THEN "enrich_sleep" ELSE "respond"

\* A loop whose failure branches `continue` past the sleep of the next pass
PcAfterEnrichNoSleepOnFail(outcome, done, n) ==
    IF done >= n THEN "respond"
    ELSE IF outcome = "stored" THEN "enrich_sleep" ELSE "enrich"

\* Where the enrichment loop goes after its pass number `done` of n: every
\* branch of the body, the except included, ends in `continue`
PcAfterEnrich(outcome, done, n) ==
    IF done < n THEN "enrich_sleep" ELSE "respond"

\* A final query that forgets the descending order
\* A read-back without the job_id__in filter
JobSchemasAll(st, ids) ==
    Reverse([i \in 1..Len(st) |-> JobListingSchema(st[i])])

JobSchemasOldestFirst(st, ids) ==
    LET hits == SelectSeq(st, LAMBDA r : r.job_id \in Range(ids))
    IN  [i \in 1..Len(hits) |-> JobListingSchema(hits[i])]

\* JobListing.objects.filter(job_id__in=unique_job_ids).order_by('-created_at')
\* turned into JobListingSchema objects
JobSchemas(st, ids) ==
    LET hits == SelectSeq(st, LAMBDA r : r.job_id \in Range(ids))
    IN  Reverse([i \in 1..Len(hits) |-> JobListingSchema(hits[i])])

NoResponse ==
    [status |-> 0, jobs |-> <<>>, has_counts |-> FALSE,
     enriched |-> 0, failed |-> 0, existing |-> 0]

\* An error answered as a success
ErrorResponseOk(status) == [NoResponse EXCEPT !.status = 200]

ErrorResponse(status) == [NoResponse EXCEPT !.status = status]

\* The 200 response of the "No jobs found" early return: no counts in it
EmptyResponse == [NoResponse EXCEPT !.status = 200]

\* A response that keeps the failures to itself
JobSearchResponseNoFailed(jobs, enriched, failed, existing) ==
    [status |-> 200, jobs |-> jobs, has_counts |-> TRUE,
     enriched |-> enriched, failed |-> 0, existing |-> existing]

\* JobSearchResponse(success=True, jobs=..., enriched_count=..., ...)
JobSearchResponse(jobs, enriched, failed, existing) ==
    [status |-> 200, jobs |-> jobs, has_counts |-> TRUE,
     enriched |-> enriched, failed |-> failed, existing |-> existing]

\* ==================================================================== state
VARIABLES
    store,            \* the JobListing table, rows in creation order
    runs,             \* orchestration requests started so far
    pc,               \* position of the running search_jobs request
    n_profiles,       \* len(profiles)
    total_limit,
    idx,              \* index of the profile loop
    jobs_by_id,
    search_meta,      \* per searched profile: its limit and len(jobs_data)
    unique_job_ids,
    existing_jobs,
    jobs_to_enrich,
    eidx,             \* ids of jobs_to_enrich already processed
    enriched_count,
    failed_count,
    enrich_log,       \* per processed id: the job_details and what became of it
    enrich_wait,      \* time slept since the last detail fetch of the run
    response,         \* the response of the request
    cfu_pc,           \* position of the running create_job_from_url request
    cfu_id,
    cfu_count,
    cfu_response,
    cfu_log,          \* history: what every create_job_from_url request did
    s_pc,             \* a search call on its own: position,
    limit,            \*   limit,
    jobs,             \*   jobs,
    seen_job_ids,     \*   seen_job_ids,
    start,            \*   start,
    fetches,          \*   page fetches issued so far,
    fetch_failed,     \*   whether a page fetch raised,
    dup_skips,        \*   "Skipping duplicate job" lines logged,
    search_ret,       \*   what the call handed to its caller,
    page_wait,        \*   time slept since the last page fetch,
    last_page,        \*   the cards of the page fetched last
    sh_total,         \* the share computation on its own: limit,
    sh_n,             \*   number of profiles,
    sh_idx,           \*   loop index,
    sh_shares,        \*   shares handed out so far
    job_searches,     \* the JobSearch table
    applications,     \* the JobApplication table, rows in creation order
    app_req,          \* the create_job_application requests in progress
    app_count,        \* create_job_application requests started so far
    cl_pc,            \* position of the cleanup command
    cl_dry,           \*   its --dry-run option
    cl_runs,          \*   runs of the command started so far
    cl_deleted        \*   job ids the command deleted in its last run

enrichVars  == <<unique_job_ids, existing_jobs, jobs_to_enrich, eidx,
                 enriched_count, failed_count, enrich_log, enrich_wait>>
runVars     == <<runs, pc, n_profiles, total_limit, idx, jobs_by_id, search_meta,
                 enrichVars, response>>
cfuVars     == <<cfu_pc, cfu_id, cfu_count, cfu_response, cfu_log>>
scraperVars == <<s_pc, limit, jobs, seen_job_ids, start, fetches, fetch_failed,
                 dup_skips, search_ret, page_wait, last_page>>
shVars      == <<sh_total, sh_n, sh_idx, sh_shares>>
appVars     == <<applications, app_req, app_count, cl_pc, cl_dry, cl_runs, cl_deleted>>
vars        == <<store, runVars, cfuVars, scraperVars, shVars, job_searches, appVars>>

RunInit ==
    /\ runs = 0 /\ pc = "idle" /\ n_profiles = 0 /\ total_limit = 0
    /\ idx = 0 /\ jobs_by_id = <<>> /\ search_meta = <<>>
    /\ unique_job_ids = <<>> /\ existing_jobs = {} /\ jobs_to_enrich = <<>>
    /\ eidx = 0 /\ enriched_count = 0 /\ failed_count = 0 /\ enrich_log = <<>>
    /\ enrich_wait = 0
    /\ response = NoResponse

CfuInit ==
    /\ cfu_pc = "idle" /\ cfu_id = None /\ cfu_count = 0 /\ cfu_response = NoResponse
    /\ cfu_log = <<>>

ScraperIdle ==
    /\ s_pc = "idle" /\ limit = 0 /\ jobs = <<>> /\ seen_job_ids = {}
    /\ start = 0 /\ fetches = 0 /\ fetch_failed = FALSE /\ dup_skips = 0
    /\ search_ret = NoReturn /\ page_wait = 0 /\ last_page = <<>>

ShIdle == sh_total = 0 /\ sh_n = 0 /\ sh_idx = 0 /\ sh_shares = <<>>

\* Two requests can be in progress at a time
AppSlots == {1, 2}

Users == {"u1", "u2"}

\* A request slot: the payload being served, the position of the handler and
\* the last answer (status, ErrorResponse.error)
NoAppRequest ==
    [pc |-> "idle", user |-> None, job_id |-> None, job_title |-> None,
     job_url |-> None, status |-> 0, error |-> None]

AppIdle ==
    /\ applications = <<>>
    /\ app_req = [r \in AppSlots |-> NoAppRequest]
    /\ app_count = 0
    /\ cl_pc = "idle" /\ cl_dry = FALSE /\ cl_runs = 0 /\ cl_deleted = {}

Init == store = <<>> /\ job_searches = <<>> /\ AppIdle /\ RunInit /\ CfuInit /\ ScraperIdle /\ ShIdle

\* ------------------------------------------------- search_jobs (the router)
\* The request arrives: profiles loaded, limit split, the collections emptied.
StartRun(n, lim) ==
    /\ pc \in {"idle", "done"}
    /\ runs < MaxRuns
    /\ runs' = runs + 1
    /\ n_profiles' = n
    /\ total_limit' = TotalLimit(lim)
    /\ idx' = 0 /\ jobs_by_id' = <<>> /\ search_meta' = <<>>
    /\ unique_job_ids' = <<>> /\ existing_jobs' = {} /\ jobs_to_enrich' = <<>>
    /\ eidx' = 0 /\ enriched_count' = 0 /\ failed_count' = 0 /\ enrich_log' = <<>>
    /\ enrich_wait' = 0
    /\ IF n = 0
       THEN response' = ErrorResponse(400) /\ pc' = "done"
       ELSE response' = NoResponse /\ pc' = "search"
    /\ UNCHANGED <<job_searches, appVars, store, cfuVars, scraperVars, shVars>>

\* if per_profile_limit <= 0: continue
SkipProfile ==
    /\ pc = "search"
    /\ idx < n_profiles
    /\ PerProfileLimit(total_limit, n_profiles, idx) <= 0
    /\ idx' = idx + 1
    /\ pc' = IF idx + 1 >= n_profiles THEN "check" ELSE "search"
    /\ UNCHANGED <<job_searches, appVars, store, runs, n_profiles, total_limit, jobs_by_id, search_meta,
                   enrichVars, response, cfuVars, scraperVars, shVars>>

\* One profile: scraper.search_jobs with the profile's share hands back ret.
\* An exception reaches the outer except (500); stubs are collected, and the
\* loop goes on, breaks or ends.
SearchProfile(l, ret) ==
    /\ pc = "search"
    /\ idx < n_profiles
    /\ l > 0
    /\ l = PerProfileLimit(total_limit, n_profiles, idx)
    /\ IF ret.kind = "error"
       THEN /\ response' = ErrorResponse(500)
            /\ pc' = "done"
            /\ UNCHANGED <<idx, jobs_by_id, search_meta>>
       ELSE /\ search_meta' = Append(search_meta, [limit |-> l, results |-> Len(ret.stubs), jobs_data |-> ret.stubs])
            /\ jobs_by_id' = CollectUnique(jobs_by_id, ret.stubs, 1)
            /\ IF Len(jobs_by_id') >= total_limit
               THEN pc' = "check" /\ UNCHANGED idx
               ELSE /\ idx' = idx + 1
                    /\ pc' = IF idx + 1 >= n_profiles THEN "check" ELSE "search"
            /\ UNCHANGED response
    /\ UNCHANGED <<job_searches, appVars, store, runs, n_profiles, total_limit, enrichVars,
                   cfuVars, scraperVars, shVars>>

\* Steps 2 and 3: the unique ids, the existence check, the ids to enrich.
\* idx, jobs_by_id and search_meta are dead from here on (the URL fallback
\* jobs_by_id[job_id] of the create is never taken: job_details always carries
\* linkedin_url) and are dropped.
CheckExisting ==
    /\ pc = "check"
    /\ unique_job_ids' = UniqueJobIds(jobs_by_id, total_limit)
    /\ IF unique_job_ids' = <<>>
       THEN /\ response' = EmptyResponse
            /\ pc' = "done"
            /\ UNCHANGED <<existing_jobs, jobs_to_enrich>>
       ELSE /\ existing_jobs' = ExistingJobs(store, unique_job_ids')
            /\ jobs_to_enrich' = JobsToEnrich(unique_job_ids', existing_jobs')
            /\ pc' = IF jobs_to_enrich' = <<>> THEN "respond" ELSE "enrich"
            /\ UNCHANGED response
    /\ idx' = 0 /\ jobs_by_id' = <<>> /\ search_meta' = <<>>
    /\ UNCHANGED <<job_searches, appVars, store, runs, n_profiles, total_limit,
                   eidx, enriched_count, failed_count, enrich_log, enrich_wait,
                   cfuVars, scraperVars, shVars>>

\* Step 4, one id: the detail fetch, the validation and the store write.
Enrich(job_id, f) ==
    /\ pc = "enrich"
    /\ job_id = jobs_to_enrich[eidx + 1]
    /\ LET details == GetJobDetails(job_id, f)
           r       == EnrichOne(store, job_id, details)
       IN  /\ store' = r.store
           /\ enriched_count' = enriched_count + r.enriched
           /\ failed_count' = failed_count + r.failed
           /\ enrich_log' = Append(enrich_log,
                  [job_id |-> job_id, delay |-> enrich_wait,
                   fetched |-> f.ok, page |-> f.page, details |-> details,
                   outcome |-> r.outcome])
           /\ pc' = PcAfterEnrich(r.outcome, eidx + 1, Len(jobs_to_enrich))
    /\ eidx' = eidx + 1
    /\ enrich_wait' = 0
    /\ UNCHANGED <<job_searches, appVars, runs, n_profiles, total_limit, idx, jobs_by_id, search_meta,
                   unique_job_ids, existing_jobs, jobs_to_enrich,
                   response, cfuVars, scraperVars, shVars>>

\* time.sleep(2) before every enrichment but the first
EnrichSleep ==
    /\ pc = "enrich_sleep"
    /\ enrich_wait' = enrich_wait + EnrichDelay
    /\ pc' = "enrich"
    /\ UNCHANGED <<job_searches, appVars, store, runs, n_profiles, total_limit, idx, jobs_by_id, search_meta,
                   unique_job_ids, existing_jobs, jobs_to_enrich, eidx,
                   enriched_count, failed_count, enrich_log,
                   response, cfuVars, scraperVars, shVars>>

\* Step 5: the listings of the unique ids are read back and returned.
Respond ==
    /\ pc = "respond"
    /\ response' = JobSearchResponse(JobSchemas(store, unique_job_ids),
                        enriched_count, failed_count, Cardinality(existing_jobs))
    /\ pc' = "done"
    /\ UNCHANGED <<job_searches, appVars, store, runs, n_profiles, total_limit, idx, jobs_by_id, search_meta,
                   enrichVars, cfuVars, scraperVars, shVars>>

Next ==
    \/ \E n \in 0..MaxProfiles, lim \in 0..MaxLimit : StartRun(n, lim)
    \/ SkipProfile
    \/ \E r \in RunSearchResults : SearchProfile(r[1], r[2])
    \/ CheckExisting
    \/ \E j \in JobIds : \E f \in FetchOutcomes(j) : Enrich(j, f)
    \/ EnrichSleep
    \/ Respond

\* Orchestration requests served one after the other, nothing else running
Spec == Init /\ [][Next]_vars

\* ------------------------------------------------------ create_job_from_url
\* A request that goes to the site whatever the store holds
CfuNeedsFetchAlways(st, job_id) == TRUE

\* existing_job = JobListing.objects.filter(job_id=job_id).first() is None
CfuNeedsFetch(st, job_id) == job_id \notin StoredIds(st)

JobResponse(job) == [NoResponse EXCEPT !.status = 200, !.jobs = <<JobListingSchema(job)>>]

\* The request arrives with a URL of posting job_id (None: a URL the regex
\* finds no id in): 400, the stored listing, or on to the detail fetch.
CfuRequest(job_id) ==
    /\ cfu_pc = "idle"
    /\ cfu_count < MaxCfu
    /\ cfu_count' = cfu_count + 1
    /\ IF Falsy(job_id)
       THEN cfu_response' = ErrorResponse(400) /\ UNCHANGED <<cfu_pc, cfu_id>>
       ELSE IF ~CfuNeedsFetch(store, job_id)
       THEN cfu_response' = JobResponse(Row(store, job_id)) /\ UNCHANGED <<cfu_pc, cfu_id>>
       ELSE cfu_response' = NoResponse /\ cfu_pc' = "fetch" /\ cfu_id' = job_id
    /\ cfu_log' = Append(cfu_log,
           [job_id |-> job_id, was_stored |-> job_id \in StoredIds(store),
            fetched |-> FALSE, status |-> cfu_response'.status])
    /\ UNCHANGED <<job_searches, appVars, store, runVars, scraperVars, shVars>>

\* The detail fetch, the validation and the store write of the request
CfuFetch(job_id, f) ==
    /\ cfu_pc = "fetch"
    /\ job_id = cfu_id
    /\ LET details == GetJobDetails(job_id, f)
           c       == Create(store, [details EXCEPT !.job_id = job_id])
       IN  IF details.is_none \/ Falsy(details.title) \/ ~c.ok
           THEN cfu_response' = ErrorResponse(500) /\ UNCHANGED store
           ELSE /\ store' = c.store
                /\ cfu_response' = JobResponse(Row(c.store, job_id))
    /\ cfu_pc' = "idle"
    /\ cfu_id' = None
    /\ cfu_log' = [cfu_log EXCEPT ![Len(cfu_log)] =
                      [@ EXCEPT !.fetched = TRUE, !.status = cfu_response'.status]]
    /\ UNCHANGED <<job_searches, appVars, cfu_count, runVars, scraperVars, shVars>>

\* One orchestration request (one profile, the default limit) and
\* create-from-url requests, interleaving at their store accesses and fetches
NextConc ==
    \/ pc = "idle" /\ StartRun(1, 0)
    \/ \E r \in RunSearchResults : SearchProfile(r[1], r[2])
    \/ CheckExisting
    \/ \E j \in JobIds : \E f \in FetchOutcomes(j) : Enrich(j, f)
    \/ EnrichSleep
    \/ Respond
    \/ \E j \in JobIds \cup {None} : CfuRequest(j)
    \/ \E j \in JobIds : \E f \in FetchOutcomes(j) : CfuFetch(j, f)

SpecConc == Init /\ [][NextConc]_vars

\* ------------------------------------------------- a search call on its own
\* scraper.search_jobs(limit=l) is called
SearchInit ==
    /\ store = <<>> /\ job_searches = <<>> /\ AppIdle /\ RunInit /\ CfuInit /\ ShIdle
    /\ s_pc = "loop" /\ limit \in 1..MaxLimit
    /\ jobs = <<>> /\ seen_job_ids = {} /\ start = 0 /\ fetches = 0
    /\ fetch_failed = FALSE /\ dup_skips = 0
    /\ search_ret = NoReturn /\ page_wait = 0 /\ last_page = <<>>

\* while len(jobs) < limit ... return jobs[:limit]
LoopHead ==
    /\ s_pc = "loop"
    /\ IF Len(jobs) < limit
       THEN s_pc' = "fetch" /\ UNCHANGED search_ret
       ELSE s_pc' = "returned" /\ search_ret' = SearchStubs(jobs, limit)
    /\ UNCHANGED <<job_searches, appVars, store, runVars, cfuVars, shVars,
                   limit, jobs, seen_job_ids, start, fetches, fetch_failed, dup_skips,
                   page_wait, last_page>>

\* session.get / raise_for_status raises: the call ends with the exception
FetchPageFail ==
    /\ s_pc = "fetch"
    /\ fetches' = fetches + 1
    /\ fetch_failed' = TRUE
    /\ search_ret' = SearchJobsOnError(jobs, limit)
    /\ s_pc' = IF search_ret'.kind = "error" THEN "raised" ELSE "returned"
    /\ page_wait' = 0
    /\ UNCHANGED <<job_searches, appVars, store, runVars, cfuVars, shVars,
                   limit, jobs, seen_job_ids, start, dup_skips, last_page>>

\* A result page arrives and its cards are processed: the call returns, or
\* moves to the next offset and is about to sleep
FetchPage(cards) ==
    /\ s_pc = "fetch"
    /\ fetches' = fetches + 1
    /\ page_wait' = 0
    /\ last_page' = cards
    /\ LET acc == ProcessCards(cards, 1,
                      [jobs |-> jobs, seen |-> seen_job_ids, found |-> 0,
                       dups |-> dup_skips], limit)
       IN  /\ jobs' = acc.jobs
           /\ seen_job_ids' = acc.seen
           /\ dup_skips' = acc.dups
           /\ IF PageEndsSearch(cards, acc, limit)
              THEN /\ search_ret' = SearchStubs(acc.jobs, limit)
                   /\ s_pc' = "returned"
                   /\ UNCHANGED start
              ELSE /\ start' = start + PageSize
                   /\ s_pc' = "sleep"
                   /\ UNCHANGED search_ret
    /\ UNCHANGED <<job_searches, appVars, store, runVars, cfuVars, shVars, limit, fetch_failed>>

\* A page loop that goes on without sleeping
SleepAfterPageSkipped(wait) == wait

\* time.sleep(1)
SleepAfterPage(wait) == wait + PageDelay

\* time.sleep(1), then back to the loop head
PageSleep ==
    /\ s_pc = "sleep"
    /\ page_wait' = SleepAfterPage(page_wait)
    /\ s_pc' = "loop"
    /\ UNCHANGED <<job_searches, appVars, store, runVars, cfuVars, shVars, limit, jobs, seen_job_ids,
                   start, fetches, fetch_failed, dup_skips, search_ret, last_page>>

SearchNext ==
    \/ LoopHead
    \/ FetchPageFail
    \/ \E cards \in Pages : FetchPage(cards)
    \/ PageSleep

SpecSearch == SearchInit /\ [][SearchNext]_vars

\* A call of search_jobs with any limit an int argument can carry, zero and
\* negative ones included
SearchInitAny ==
    /\ store = <<>> /\ job_searches = <<>> /\ AppIdle /\ RunInit /\ CfuInit /\ ShIdle
    /\ s_pc = "loop" /\ limit \in (0 - 1)..MaxLimit
    /\ jobs = <<>> /\ seen_job_ids = {} /\ start = 0 /\ fetches = 0
    /\ fetch_failed = FALSE /\ dup_skips = 0
    /\ search_ret = NoReturn /\ page_wait = 0 /\ last_page = <<>>

\* The call is one thread of control: a step that can be taken is taken (the
\* page fetch has timeout=10, the sleep is one second)
SpecSearchAny == SearchInitAny /\ [][SearchNext]_vars /\ WF_vars(SearchNext)

\* ------------------------------------------- the share computation on its own
\* total_limit and len(profiles) as the split finds them
ShareInit ==
    /\ store = <<>> /\ job_searches = <<>> /\ AppIdle /\ RunInit /\ CfuInit /\ ScraperIdle
    /\ sh_total \in (0 - MaxShareN)..MaxShareL
    /\ sh_n \in 1..MaxShareN
    /\ sh_idx = 0
    /\ sh_shares = <<>>

\* One round of the profile loop: per_profile_limit of profile sh_idx
ShareStep ==
    /\ sh_idx < sh_n
    /\ sh_shares' = Append(sh_shares, PerProfileLimit(sh_total, sh_n, sh_idx))
    /\ sh_idx' = sh_idx + 1
    /\ UNCHANGED <<job_searches, appVars, store, runVars, cfuVars, scraperVars, sh_total, sh_n>>

ShareNext == ShareStep

SpecShares == ShareInit /\ [][ShareNext]_vars

\* ------------------------------------------- applications and the cleanup
clVars == <<cl_pc, cl_dry, cl_runs, cl_deleted>>

\* CreateJobApplicationRequest payloads: linked to a listing by job_id, or
\* custom (no job_id) with a title and, possibly, a URL
AppPayloads ==
    {[job_id |-> j, job_title |-> "T1", job_url |-> None] : j \in {"101", "102"}}
    \cup {[job_id |-> None, job_title |-> t, job_url |-> u] :
             t \in {"T1", "T2"}, u \in {None, "U1"}}

\* A listing as an earlier search or create-from-url stored it
StoredListing(job_id) ==
    JobListing(DetailsOf(job_id, DetailPage("T", "D1", "full_time", "entry_level", 5)))

AppStores ==
    {<<>>, <<StoredListing("101")>>, <<StoredListing("101"), StoredListing("102")>>}

\* A JobApplication row: job_id is the listing the foreign key points to
\* (None: job_listing is NULL)
JobApplication(user, job_id, job_title, job_url) ==
    [user |-> user, job_id |-> job_id, job_title |-> job_title, job_url |-> job_url]

\* JobApplication.objects.filter(user=user, job_listing=job_listing).first()
HasApplied(apps, user, job_id) ==
    \E i \in 1..Len(apps) : apps[i].user = user /\ apps[i].job_id = job_id

\* The two duplicate checks of a custom application: by job_url when the
\* payload has one, then by job_title + company_name
HasAppliedCustom(apps, user, job_title, job_url) ==
    \/ /\ ~Falsy(job_url)
       /\ \E i \in 1..Len(apps) :
              apps[i].user = user /\ apps[i].job_id = None /\ apps[i].job_url = job_url
    \/ \E i \in 1..Len(apps) :
           apps[i].user = user /\ apps[i].job_id = None /\ apps[i].job_title = job_title

\* An insert that checks the foreign key only
AppInsertNoUnique(apps, st, a) ==
    IF a.job_id # None /\ a.job_id \notin StoredIds(st)
    THEN [ok |-> FALSE, apps |-> apps]
    ELSE [ok |-> TRUE, apps |-> Append(apps, a)]

\* JobApplication.objects.create: the database refuses (ok = FALSE, nothing
\* written) a job_listing that is no longer there and a second row of the
\* same user and listing (unique_user_job_listing, for non-null listings)
AppInsert(apps, st, a) ==
    IF a.job_id # None /\ (a.job_id \notin StoredIds(st) \/ HasApplied(apps, a.user, a.job_id))
    THEN [ok |-> FALSE, apps |-> apps]
    ELSE [ok |-> TRUE, apps |-> Append(apps, a)]

AppAnswer(req, status, error) ==
    [NoAppRequest EXCEPT !.status = status, !.error = error]

\* The request arrives at slot r; JobListing.objects.get(job_id=...) when the
\* payload has a job_id: 404 if there is no such listing
AppGet(r, user, payload) ==
    /\ app_req[r].pc = "idle"
    /\ app_count < MaxAppReqs
    /\ app_count' = app_count + 1
    /\ IF ~Falsy(payload.job_id) /\ payload.job_id \notin StoredIds(store)
       THEN app_req' = [app_req EXCEPT ![r] = AppAnswer(@, 404, "Job not found")]
       ELSE app_req' = [app_req EXCEPT ![r] =
                [pc |-> "check", user |-> user, job_id |-> payload.job_id,
                 job_title |-> payload.job_title, job_url |-> payload.job_url,
                 status |-> 0, error |-> None]]
    /\ UNCHANGED <<store, applications, clVars, job_searches, runVars, cfuVars, scraperVars, shVars>>

\* The duplicate check of the handler
AppCheck(r) ==
    /\ app_req[r].pc = "check"
    /\ LET q == app_req[r]
           dup == IF q.job_id # None
                  THEN HasApplied(applications, q.user, q.job_id)
                  ELSE HasAppliedCustom(applications, q.user, q.job_title, q.job_url)
       IN  IF dup
           THEN app_req' = [app_req EXCEPT ![r] = AppAnswer(@, 400, "Duplicate application")]
           ELSE app_req' = [app_req EXCEPT ![r].pc = "create"]
    /\ UNCHANGED <<store, applications, app_count, clVars, job_searches, runVars, cfuVars,
                   scraperVars, shVars>>

\* The create inside the try: 201, or 400 from the except
AppCreate(r) ==
    /\ app_req[r].pc = "create"
    /\ LET q == app_req[r]
           ins == AppInsert(applications, store,
                            JobApplication(q.user, q.job_id, q.job_title, q.job_url))
       IN  /\ applications' = ins.apps
           /\ app_req' = [app_req EXCEPT ![r] =
                  IF ins.ok THEN AppAnswer(@, 201, None)
                  ELSE AppAnswer(@, 400, "Failed to create job application")]
    /\ UNCHANGED <<store, app_count, clVars, job_searches, runVars, cfuVars, scraperVars, shVars>>

\* job_listings_with_applications
ReferencedIds(apps) == {apps[i].job_id : i \in 1..Len(apps)} \ {None}

\* A cleanup that takes every listing for unused
UnusedJobsAll(st, apps) == st

\* unused_jobs = JobListing.objects.exclude(id__in=job_listings_with_applications):
\* a lazy queryset, evaluated where it is used
UnusedJobs(st, apps) == SelectSeq(st, LAMBDA row : row.job_id \notin ReferencedIds(apps))

\* QuerySet.delete() of the listings gone: the rows leave the store and
\* on_delete=SET_NULL clears the job_listing of applications that point to them
DeleteJobs(st, gone) == SelectSeq(st, LAMBDA row : row \notin Range(gone))

SetNull(apps, gone) ==
    [i \in 1..Len(apps) |->
        IF apps[i].job_id \in StoredIds(gone) THEN [apps[i] EXCEPT !.job_id = None]
        ELSE apps[i]]

\* The command starts (from the scheduler, never dry, or by hand) and counts
\* the unused listings: with none it returns
CleanupCount(dry) ==
    /\ cl_pc = "idle"
    /\ cl_runs < MaxCleanups
    /\ cl_runs' = cl_runs + 1
    /\ cl_dry' = dry
    /\ cl_deleted' = {}
    /\ cl_pc' = IF Len(UnusedJobs(store, applications)) = 0 THEN "idle" ELSE "delete"
    /\ UNCHANGED <<store, applications, app_req, app_count, job_searches, runVars, cfuVars,
                   scraperVars, shVars>>

\* The end of the command: the dry run reports, the real one deletes what the
\* queryset holds now
CleanupDelete ==
    /\ cl_pc = "delete"
    /\ IF cl_dry
       THEN UNCHANGED <<store, applications, cl_deleted>>
       ELSE LET gone == UnusedJobs(store, applications)
            IN  /\ store' = DeleteJobs(store, gone)
                /\ applications' = SetNull(applications, gone)
                /\ cl_deleted' = StoredIds(gone)
    /\ cl_pc' = "idle"
    /\ UNCHANGED <<cl_dry, cl_runs, app_req, app_count, job_searches, runVars, cfuVars,
                   scraperVars, shVars>>

AppsInit ==
    /\ store \in AppStores
    /\ job_searches = <<>> /\ AppIdle /\ RunInit /\ CfuInit /\ ScraperIdle /\ ShIdle

AppsNext ==
    \/ \E r \in AppSlots, u \in Users, payload \in AppPayloads : AppGet(r, u, payload)
    \/ \E r \in AppSlots : AppCheck(r)
    \/ \E r \in AppSlots : AppCreate(r)
    \/ \E dry \in BOOLEAN : CleanupCount(dry)
    \/ CleanupDelete

\* create_job_application requests of two workers and the cleanup command,
\* interleaving at their database accesses
SpecApps == AppsInit /\ [][AppsNext]_vars

\* =============================================================== properties
RECURSIVE SumSeq(_)
SumSeq(s) == IF s = <<>> THEN 0 ELSE Head(s) + SumSeq(Tail(s))

IdsOf(stubs) == [i \in 1..Len(stubs) |-> stubs[i].job_id]

\* C1: in every orchestration run the ids collected over the profiles, the
\* unique ids the run works on, the stored listings and the returned jobs
\* hold no job id twice, and the unique ids and the returned jobs number at
\* most total_limit; the collected ids are never more than the searches
\* returned.
C1_DedupCorrect ==
    /\ NoDup(IdsOf(jobs_by_id))
    /\ NoDup(unique_job_ids)
    /\ Len(unique_job_ids) <= total_limit
    /\ NoDup(IdsOf(store))
    /\ NoDup(IdsOf(response.jobs))
    /\ Len(response.jobs) <= total_limit
    /\ Range(IdsOf(response.jobs)) \subseteq Range(unique_job_ids)

\* Two profiles were searched, the second returned an id the first had
\* returned, and the id is collected once
C1_Witness ==
    /\ pc = "check"
    /\ Len(search_meta) = 2
    /\ search_meta[1].results + search_meta[2].results > Len(jobs_by_id)
    /\ Len(jobs_by_id) >= 2

\* C2: when the split is done, share i is floor(L/N), plus 1 for the first
\* (L mod N) profiles; the shares sum to L and two shares differ by at most 1;
\* L = 10 and N = 3 give 4, 3, 3.
C2_EvenShares ==
    (sh_n >= 1 /\ sh_idx = sh_n) =>
        /\ Len(sh_shares) = sh_n
        /\ \A i \in 1..sh_n :
              sh_shares[i] = (sh_total \div sh_n) + (IF i <= sh_total % sh_n THEN 1 ELSE 0)
        /\ SumSeq(sh_shares) = sh_total
        /\ \A i, j \in 1..sh_n : sh_shares[i] - sh_shares[j] <= 1
        /\ (sh_total = 10 /\ sh_n = 3) => sh_shares = <<4, 3, 3>>

C2_Witness == sh_total = 10 /\ sh_n = 3 /\ sh_idx = 3 /\ sh_shares = <<4, 3, 3>>

\* C3: no step of a search run or of a create-from-url request changes the
\* description, employment_type or experience_level (or any other field) of a
\* listing that is stored before and after the step, whatever the fresh data
\* of a later fetch of the same id says (a fresh description "" leaves the
\* stored one in place); the is_enriched flag the schema reports for a stored
\* listing never goes from true to false.
C3_StoredFieldsKept ==
    [][\A i \in 1..Len(store) : \A j \in 1..Len(store') :
          store[i].job_id = store'[j].job_id =>
              /\ store'[j] = store[i]
              /\ (JobListingSchema(store[i]).is_enriched
                      => JobListingSchema(store'[j]).is_enriched)]_vars

\* A search run fetched fresh details with description "" for id 101 while the
\* listing of 101 was stored with description "D1", and "D1" is still stored
C3_Witness ==
    \E k \in 1..Len(enrich_log) :
        /\ enrich_log[k].job_id = "101"
        /\ enrich_log[k].outcome = "raised"
        /\ enrich_log[k].details.title = "T"
        /\ enrich_log[k].details.description = ""
        /\ "101" \in StoredIds(store)
        /\ Row(store, "101").description = "D1"
        /\ Row(store, "101").employment_type = "full_time"

\* The detail fetch of a log entry succeeded: a record with a title the store
\* takes
FetchSucceeded(e) ==
    ~e.details.is_none /\ ~Falsy(e.details.title) /\ e.details.title # "LONG"

FetchFailed(e) == e.details.is_none \/ Falsy(e.details.title)

\* C4: during and after a run, every processed id whose detail fetch
\* succeeded is stored with its fetched data, whatever became of the ids
\* processed before and after it; when the run ends with its counts, every
\* pending id has been processed.
C4_PartialFailureSurvival ==
    /\ \A k \in 1..Len(enrich_log) :
          FetchSucceeded(enrich_log[k]) =>
              /\ enrich_log[k].job_id \in StoredIds(store)
              /\ Row(store, enrich_log[k].job_id) = JobListing(enrich_log[k].details)
              /\ enrich_log[k].outcome = "stored"
    /\ (pc = "done" /\ response.has_counts) => Len(enrich_log) = Len(jobs_to_enrich)
    /\ pc \in {"respond", "done"} /\ response.status # 500 /\ runs > 0 /\ n_profiles > 0
          => Len(enrich_log) = Len(jobs_to_enrich)

\* A run of three pending ids ended: the second failed, the first and the
\* third are stored
C4_Witness ==
    /\ pc = "done"
    /\ Len(enrich_log) = 3
    /\ enrich_log[1].outcome = "stored"
    /\ enrich_log[2].outcome # "stored"
    /\ enrich_log[3].outcome = "stored"
    /\ {enrich_log[1].job_id, enrich_log[3].job_id} \subseteq StoredIds(store)
    /\ enrich_log[2].job_id \notin StoredIds(store)

\* C5: an enrichment pass whose detail fetch returned None or a record
\* without a title adds one to failed_count, leaves the store and
\* enriched_count as they are, and the loop goes on: to the next id when one
\* is left, to the response otherwise.
C5_FailedFetchSkipped ==
    [][(Len(enrich_log') = Len(enrich_log) + 1
            /\ FetchFailed(enrich_log'[Len(enrich_log')]))
        => /\ failed_count' = failed_count + 1
           /\ enriched_count' = enriched_count
           /\ store' = store
           /\ enrich_log'[Len(enrich_log')].job_id \notin StoredIds(store')
           /\ pc' = IF eidx' < Len(jobs_to_enrich) THEN "enrich_sleep" ELSE "respond"
           /\ response' = response]_vars

\* A title-less record and a None were counted and skipped, and the id after
\* them was enriched and stored
C5_Witness ==
    /\ Len(enrich_log) = 3
    /\ enrich_log[1].outcome = "no_title"
    /\ enrich_log[2].outcome = "no_details"
    /\ enrich_log[3].outcome = "stored"
    /\ failed_count = 2
    /\ enriched_count = 1
    /\ StoredIds(store) = {enrich_log[3].job_id}

\* C6 as stated: whenever the fetched page yields no title, get_job_details
\* returns None.
C6_Original ==
    \A k \in 1..Len(enrich_log) :
        (enrich_log[k].fetched /\ Falsy(enrich_log[k].page.title))
            => enrich_log[k].details.is_none

\* C6: a fetched detail page without a title yields a record, not None: the
\* record has no title and carries what else the page shows, and it is the
\* router that counts the id as failed ("Missing title") and writes nothing.
C6_TitlelessRecordReturned ==
    \A k \in 1..Len(enrich_log) :
        (enrich_log[k].fetched /\ Falsy(enrich_log[k].page.title)) =>
            /\ ~enrich_log[k].details.is_none
            /\ enrich_log[k].details.job_id = enrich_log[k].job_id
            /\ enrich_log[k].details.title = enrich_log[k].page.title
            /\ enrich_log[k].details.description = enrich_log[k].page.description
            /\ enrich_log[k].outcome = "no_title"

\* The page of an id was fetched and had no title: a record came back, the id
\* was counted as failed and is not stored
C6_Witness ==
    /\ Len(enrich_log) = 1
    /\ enrich_log[1].fetched
    /\ enrich_log[1].page.title = None
    /\ ~enrich_log[1].details.is_none
    /\ enrich_log[1].details.title = None
    /\ enrich_log[1].details.description = "D1"
    /\ enrich_log[1].outcome = "no_title"
    /\ failed_count = 1
    /\ enrich_log[1].job_id \notin StoredIds(store)

NumFailed(log) == Cardinality({k \in 1..Len(log) : log[k].outcome # "stored"})

\* C7 as stated: every run over at least one profile ends with a result.
C7_Original ==
    (pc = "done" /\ runs > 0 /\ n_profiles > 0) => response.status = 200

\* C7: a run that reached the enrichment phase always ends with a 200 result
\* carrying the counts (enriched + failed = ids to enrich, failed = the
\* failures of the run); only a failed page fetch of a profile search ends the
\* run with a 500 and no jobs, and that before any enrichment.
C7_BestEffortAfterSearch ==
    /\ (pc = "done" /\ enrich_log # <<>>) =>
          /\ response.status = 200
          /\ response.has_counts
          /\ response.enriched + response.failed = Len(jobs_to_enrich)
          /\ response.failed = NumFailed(enrich_log)
          /\ response.existing = Cardinality(existing_jobs)
    /\ (pc = "done" /\ runs > 0 /\ n_profiles > 0) => response.status \in {200, 500}
    /\ (pc = "done" /\ response.status = 500) =>
          /\ enrich_log = <<>>
          /\ unique_job_ids = <<>>
          /\ response.jobs = <<>>
          /\ ~response.has_counts

\* A run ended with a 200 result after one enrichment failed and one succeeded
C7_Witness ==
    /\ pc = "done"
    /\ response.status = 200
    /\ response.failed = 1
    /\ response.enriched = 1
    /\ Len(response.jobs) = 1
    /\ Len(enrich_log) = 2

\* C8 as stated: a detail fetch that failed in transport never comes back as
\* the None of "no details".
C8_Original ==
    \A k \in 1..Len(enrich_log) :
        ~enrich_log[k].fetched => enrich_log[k].outcome # "no_details"

\* C8: a detail fetch that failed in transport comes back as None, nothing
\* raised: the router counts it as "No details returned" and goes on; it
\* differs from a page without a title, which comes back as a record.
C8_TransportFailureIsNone ==
    \A k \in 1..Len(enrich_log) :
        ~enrich_log[k].fetched =>
            /\ enrich_log[k].details = NoDetails
            /\ enrich_log[k].outcome = "no_details"

\* The detail fetch of the only pending id failed in transport and the run
\* ended with a 200 result counting one failure
C8_Witness ==
    /\ pc = "done"
    /\ Len(enrich_log) = 1
    /\ ~enrich_log[1].fetched
    /\ enrich_log[1].details.is_none
    /\ response.status = 200
    /\ response.failed = 1
    /\ response.enriched = 0

\* C9: once a page fetch of a search call has raised, the call has ended with
\* the exception and hands back no stubs, those of earlier pages included;
\* no further fetch is issued and nothing is returned later.
C9_FetchFailureAborts ==
    /\ [](fetch_failed =>
             /\ s_pc = "raised"
             /\ search_ret.kind = "error"
             /\ search_ret.stubs = <<>>)
    /\ [][fetch_failed => (fetch_failed' /\ UNCHANGED <<fetches, search_ret, s_pc, jobs>>)]_vars

\* The second page fetch of a call raised after the first page gave a stub
C9_Witness ==
    /\ fetch_failed
    /\ fetches = 2
    /\ Len(jobs) >= 1
    /\ s_pc = "raised"

\* C10: the stubs a search call collects and returns hold no job id twice and
\* number at most limit, whatever the pages hold.
C10_StubsUniqueBounded ==
    /\ NoDup(IdsOf(jobs))
    /\ Len(jobs) <= limit
    /\ Range(IdsOf(jobs)) = seen_job_ids
    /\ search_ret.kind = "stubs" =>
          /\ search_ret.stubs = jobs
          /\ NoDup(IdsOf(search_ret.stubs))
          /\ Len(search_ret.stubs) <= limit

\* A call returned two stubs from two pages after skipping a repeated id
C10_Witness ==
    /\ s_pc = "returned"
    /\ search_ret.kind = "stubs"
    /\ Len(search_ret.stubs) >= 2
    /\ fetches >= 2
    /\ dup_skips >= 1

LogIds(log) == {log[k].job_id : k \in 1..Len(log)}

\* C11 as stated: when a run ends, every id it found already stored has been
\* observed afresh and its stored applicant count is the fresh one.
C11_Original ==
    (pc = "done" /\ response.has_counts) =>
        \A j \in existing_jobs :
            \E k \in 1..Len(enrich_log) :
                /\ enrich_log[k].job_id = j
                /\ enrich_log[k].fetched
                /\ j \in StoredIds(store)
                /\ Row(store, j).applicants_count = enrich_log[k].details.applicants_count

\* C11: an id the run found already stored gets no detail fetch in the run;
\* no step changes the applicant count of a stored listing; the run returns
\* the listing with the applicant count it is stored with.
C11_ResightedRecordLeftAlone ==
    /\ [](existing_jobs \cap LogIds(enrich_log) = {})
    /\ [][\A i \in 1..Len(store) :
             /\ i <= Len(store')
             /\ store'[i].job_id = store[i].job_id
             /\ store'[i].applicants_count = store[i].applicants_count]_vars
    /\ []((pc = "done" /\ response.has_counts) =>
             \A j \in existing_jobs \cap StoredIds(store) :
                 \E i \in 1..Len(response.jobs) :
                     /\ response.jobs[i].job_id = j
                     /\ response.jobs[i].applicants_count = Row(store, j).applicants_count)

\* A run found 101 already stored, enriched another id and returned 101 with
\* the applicant count it was stored with
C11_Witness ==
    /\ pc = "done"
    /\ existing_jobs = {"101"}
    /\ enriched_count = 1
    /\ Row(store, "101").applicants_count = 5
    /\ \E i \in 1..Len(response.jobs) :
          response.jobs[i].job_id = "101" /\ response.jobs[i].applicants_count = 5

\* C12: handing fresh data of an id that is already stored to the store a
\* second time (an enrichment pass or a create-from-url request on a stored
\* id) leaves the store exactly as the first time left it.
C12_SecondTimeChangesNothing ==
    [][(\/ /\ Len(enrich_log') = Len(enrich_log) + 1
           /\ enrich_log'[Len(enrich_log')].job_id \in StoredIds(store)
        \/ /\ cfu_pc = "fetch" /\ cfu_pc' = "idle"
           /\ cfu_id \in StoredIds(store)
        \/ /\ cfu_count' = cfu_count + 1
           /\ cfu_pc' = "idle")
       => store' = store]_vars

\* The run handed the store the very data a create-from-url request had
\* stored for 101 before, and the store holds that one listing
C12_Witness ==
    \E k \in 1..Len(enrich_log) :
        /\ enrich_log[k].job_id = "101"
        /\ enrich_log[k].outcome = "raised"
        /\ enrich_log[k].details.title = "T"
        /\ cfu_response.status = 200
        /\ store = <<JobListing(enrich_log[k].details)>>

PosInStore(st, job_id) == CHOOSE i \in 1..Len(st) : st[i].job_id = job_id

NumStored(log) == Cardinality({k \in 1..Len(log) : log[k].outcome = "stored"})

\* The jobs of a response are the stored listings of ids, newest first
ExactlyStoredOf(resp, st, ids) ==
    /\ {resp.jobs[i].job_id : i \in 1..Len(resp.jobs)} = StoredIds(st) \cap Range(ids)
    /\ \A i \in 1..Len(resp.jobs) :
          /\ resp.jobs[i].job_id \in StoredIds(st)
          /\ resp.jobs[i] = JobListingSchema(Row(st, resp.jobs[i].job_id))
    /\ \A a, b \in 1..Len(resp.jobs) :
          a < b => PosInStore(st, resp.jobs[a].job_id) > PosInStore(st, resp.jobs[b].job_id)

\* C13 as stated: every run that returns a result returns the stored
\* listings of its unique ids, newest first, with the three counts.
C13_Original ==
    (pc = "done" /\ response.status = 200) =>
        /\ ExactlyStoredOf(response, store, unique_job_ids)
        /\ response.has_counts

\* C13: a run that collected at least one id returns exactly the stored
\* listings of its unique ids, newest first, with the enriched, failed and
\* pre-existing counts of the run; a run that collected no id returns no
\* jobs and no counts.
C13_ResultOfRun ==
    /\ (pc = "done" /\ response.status = 200 /\ unique_job_ids # <<>>) =>
          /\ ExactlyStoredOf(response, store, unique_job_ids)
          /\ response.has_counts
          /\ response.enriched = NumStored(enrich_log)
          /\ response.failed = NumFailed(enrich_log)
          /\ response.existing = Cardinality(existing_jobs)
    /\ (pc = "done" /\ response.status = 200 /\ unique_job_ids = <<>>) =>
          /\ response.jobs = <<>>
          /\ ~response.has_counts

\* A run returned a listing it enriched ahead of one it found stored, and
\* counted one failure
C13_Witness ==
    /\ pc = "done"
    /\ response.status = 200
    /\ Len(response.jobs) = 2
    /\ response.jobs[1].job_id \in LogIds(enrich_log)
    /\ response.jobs[2].job_id \in existing_jobs
    /\ response.enriched = 1
    /\ response.failed = 1
    /\ response.existing = 1

RowsOf(st, job_id) == {i \in 1..Len(st) : st[i].job_id = job_id}

\* C14: however the steps of a run and of create-from-url requests
\* interleave, the store holds at most one listing per job id, and exactly
\* one listing for every id a request fetched good details for or answered
\* with a listing.
C14_OneRecordPerId ==
    /\ \A j \in JobIds : Cardinality(RowsOf(store, j)) <= 1
    /\ \A k \in 1..Len(enrich_log) :
          FetchSucceeded(enrich_log[k]) =>
              Cardinality(RowsOf(store, enrich_log[k].job_id)) = 1
    /\ (cfu_response.status = 200) =>
          Cardinality(RowsOf(store, cfu_response.jobs[1].job_id)) = 1

\* A run and a create-from-url request both found 101 missing and both
\* fetched it; the request's create came first, the run's create raised, and
\* one listing of 101 is stored: the request's
C14_Witness ==
    \E k \in 1..Len(enrich_log) :
        /\ enrich_log[k].job_id = "101"
        /\ enrich_log[k].outcome = "raised"
        /\ enrich_log[k].details.description = "D2"
        /\ "101" \notin existing_jobs
        /\ cfu_response.status = 200
        /\ cfu_response.jobs[1].job_id = "101"
        /\ Cardinality(RowsOf(store, "101")) = 1
        /\ Row(store, "101").description = "D1"

\* C15: the page fetch number k of a search call is made at offset 25*(k-1);
\* after a page the call returns exactly when its stubs have reached limit or
\* the page added no new id (a page without result elements adds none), and
\* otherwise moves the offset on by 25 for the next page.
C15_PagingAndStops ==
    /\ [](s_pc \in {"loop", "fetch"} => start = 25 * fetches)
    /\ [](s_pc \in {"returned", "raised"} /\ fetches > 0 => start = 25 * (fetches - 1))
    /\ [][(s_pc = "fetch" /\ fetches' = fetches + 1 /\ ~fetch_failed') =>
             IF Len(jobs') >= limit \/ jobs' = jobs
             THEN s_pc' = "returned" /\ start' = start /\ search_ret'.stubs = jobs'
             ELSE s_pc' = "sleep" /\ start' = start + 25 /\ search_ret' = search_ret]_vars

\* A call with limit 3 fetched at offsets 0, 25 and 50, got one new id from
\* each of the first two pages and none from the third, and returned
C15_Witness ==
    /\ s_pc = "returned"
    /\ limit = 3
    /\ fetches = 3
    /\ start = 50
    /\ Len(jobs) = 2
    /\ search_ret.stubs = jobs

\* C16: the ids to enrich are fetched one at a time in their order; no time
\* is slept before the first detail fetch of a run and 2 units are slept
\* before every other one, whatever became of the id before it.
C16_DelayBeforeEnrichment ==
    /\ Len(enrich_log) = eidx
    /\ eidx <= Len(jobs_to_enrich)
    /\ \A k \in 1..Len(enrich_log) :
          /\ enrich_log[k].job_id = jobs_to_enrich[k]
          /\ enrich_log[k].delay = IF k = 1 THEN 0 ELSE 2
    /\ pc = "enrich" => enrich_wait = IF eidx = 0 THEN 0 ELSE 2

\* Three ids were fetched with delays 0, 2, 2: the first fetch failed, the
\* second id was stored, the third had no title
C16_Witness ==
    /\ Len(enrich_log) = 3
    /\ enrich_log[1].outcome = "no_details"
    /\ enrich_log[2].outcome = "stored"
    /\ enrich_log[3].outcome = "no_title"
    /\ enrich_log[1].delay = 0
    /\ enrich_log[2].delay = 2
    /\ enrich_log[3].delay = 2

\* C17: within a search call every page fetch after the first is made after
\* at least 1 unit of sleep since the fetch before it, the first is made
\* without sleep, and once the call has returned or raised no time has been
\* slept since its last page fetch.
C17_DelayBetweenPages ==
    /\ (s_pc = "fetch" /\ fetches > 0) => page_wait >= 1
    /\ (s_pc = "fetch" /\ fetches = 0) => page_wait = 0
    /\ s_pc = "sleep" => (page_wait = 0 /\ Len(jobs) < limit)
    /\ s_pc \in {"returned", "raised"} => page_wait = 0

\* Two pages were fetched and the call is about to fetch the third, one unit
\* after the second
C17_Witness ==
    /\ s_pc = "fetch"
    /\ fetches = 2
    /\ page_wait = 1
    /\ Len(jobs) = 2

\* C18: the pass that enriches an id writes its listing to the store in the
\* same step, before the sleep and the detail fetch of the next id; at every
\* point of the enrichment phase the store holds the listing of every id
\* enriched so far, and as many of them as enriched_count says.
C18_StoredBeforeNextFetch ==
    /\ [][(Len(enrich_log') = Len(enrich_log) + 1
              /\ enrich_log'[Len(enrich_log')].outcome = "stored")
          => store' = Append(store, JobListing(enrich_log'[Len(enrich_log')].details))]_vars
    /\ [](\A k \in 1..Len(enrich_log) :
             enrich_log[k].outcome = "stored" =>
                 /\ enrich_log[k].job_id \in StoredIds(store)
                 /\ Row(store, enrich_log[k].job_id) = JobListing(enrich_log[k].details))
    /\ [](enriched_count = Cardinality(LogIds(enrich_log) \cap StoredIds(store)))

\* The first of three ids is enriched and stored, and the run has slept and
\* is about to fetch the second
C18_Witness ==
    /\ pc = "enrich"
    /\ enrich_wait = 2
    /\ eidx = 1
    /\ Len(jobs_to_enrich) = 3
    /\ enrich_log[1].outcome = "stored"
    /\ StoredIds(store) = {jobs_to_enrich[1]}
    /\ enriched_count = 1

\* The ids the run itself has stored so far
StoredByRun(log) == {log[k].job_id : k \in {i \in 1..Len(log) : log[i].outcome = "stored"}}

\* C19: the sets of the existence check are empty until the profile searches
\* are over, are set by the one check step and stay as they are until the run
\* ends; no detail fetch precedes the check; existing_jobs is the unique ids
\* that were stored at the check, and the ids a detail fetch is issued for
\* are, in order, the unique ids that were not: all of them once the run
\* reaches its response.
C19_OneExistenceCheck ==
    /\ [][(existing_jobs' # existing_jobs \/ jobs_to_enrich' # jobs_to_enrich
              \/ unique_job_ids' # unique_job_ids)
          => (pc = "check" \/ runs' = runs + 1)]_vars
    /\ [](pc \in {"search", "check"} =>
             /\ enrich_log = <<>>
             /\ existing_jobs = {} /\ jobs_to_enrich = <<>> /\ unique_job_ids = <<>>)
    /\ [](existing_jobs =
             Range(unique_job_ids) \cap (StoredIds(store) \ StoredByRun(enrich_log)))
    /\ [](/\ Len(enrich_log) <= Len(jobs_to_enrich)
          /\ \A k \in 1..Len(enrich_log) : enrich_log[k].job_id = jobs_to_enrich[k]
          /\ NoDup(jobs_to_enrich)
          /\ Range(jobs_to_enrich) = Range(unique_job_ids) \ existing_jobs)
    /\ [](pc \in {"respond", "done"} /\ unique_job_ids # <<>> =>
             LogIds(enrich_log) = Range(unique_job_ids) \ existing_jobs)

\* A second run found one of its three unique ids stored at the check and
\* issued a detail fetch for each of the two others, one of which failed
C19_Witness ==
    /\ pc = "respond"
    /\ runs = 2
    /\ Len(unique_job_ids) = 3
    /\ Cardinality(existing_jobs) = 1
    /\ Len(enrich_log) = 2
    /\ failed_count = 1
    /\ LogIds(enrich_log) \cap existing_jobs = {}

\* The stubs the searched profiles returned, in processing order
RECURSIVE AllJobsData(_)
AllJobsData(meta) ==
    IF meta = <<>> THEN <<>>
    ELSE AllJobsData(SubSeq(meta, 1, Len(meta) - 1)) \o meta[Len(meta)].jobs_data

FirstAt(all, job_id) == CHOOSE p \in 1..Len(all) :
    all[p].job_id = job_id /\ \A q \in 1..(p - 1) : all[q].job_id # job_id

\* C20: while the profiles are searched, jobs_by_id holds each id the
\* searches returned once, as the first stub that carried it (its URL
\* included), in the order of these first occurrences; a profile's results
\* only add entries after the ones already kept.
C20_FirstOccurrenceKept ==
    /\ [](pc \in {"search", "check"} =>
             LET all == AllJobsData(search_meta)
             IN  /\ KnownIds(jobs_by_id) = {all[p].job_id : p \in 1..Len(all)}
                 /\ NoDup(IdsOf(jobs_by_id))
                 /\ \A i \in 1..Len(jobs_by_id) :
                       jobs_by_id[i] = all[FirstAt(all, jobs_by_id[i].job_id)]
                 /\ \A i, j \in 1..Len(jobs_by_id) :
                       i < j => FirstAt(all, jobs_by_id[i].job_id)
                                    < FirstAt(all, jobs_by_id[j].job_id))
    /\ [][(pc = "search" /\ pc' \in {"search", "check"}) =>
             /\ Len(jobs_by_id) <= Len(jobs_by_id')
             /\ SubSeq(jobs_by_id', 1, Len(jobs_by_id)) = jobs_by_id]_vars

\* The first profile returned 101 with one URL, the second returned 101 with
\* another, and the entry of 101 carries the URL of the first
C20_Witness ==
    /\ pc = "check"
    /\ Len(search_meta) = 2
    /\ \E a \in 1..Len(search_meta[1].jobs_data), b \in 1..Len(search_meta[2].jobs_data) :
          /\ search_meta[1].jobs_data[a].job_id = "101"
          /\ search_meta[2].jobs_data[b].job_id = "101"
          /\ search_meta[1].jobs_data[a].linkedin_url # search_meta[2].jobs_data[b].linkedin_url
          /\ \E i \in 1..Len(jobs_by_id) : jobs_by_id[i] = search_meta[1].jobs_data[a]
    /\ Len(jobs_by_id) = 2

\* A card with an extractable id and a title, whose parsing does not raise
WellFormed(card) ==
    (card.urn \/ card.href = "numeric") /\ card.title /\ card.href # "broken"

StubOfCard(card) ==
    Stub(card.jid, IF card.href = "slug" THEN SlugUrl(card.jid) ELSE ViewUrl(card.jid))

\* C21: a fetched page never ends the call with an exception, whatever its
\* cards; every stub the page adds is the stub of a well-formed card of the
\* page, and every well-formed card of the page has its id among the ids
\* seen, unless the call reached its limit before the card.
C21_MalformedCardsSkipped ==
    [][(s_pc = "fetch" /\ fetches' = fetches + 1 /\ ~fetch_failed') =>
          /\ s_pc' \in {"sleep", "returned"}
          /\ Len(jobs') >= Len(jobs)
          /\ SubSeq(jobs', 1, Len(jobs)) = jobs
          /\ \A i \in (Len(jobs) + 1)..Len(jobs') :
                \E k \in 1..Len(last_page') :
                    WellFormed(last_page'[k]) /\ jobs'[i] = StubOfCard(last_page'[k])
          /\ \A k \in 1..Len(last_page') :
                WellFormed(last_page'[k]) =>
                    \/ last_page'[k].jid \in seen_job_ids'
                    \/ Len(jobs') >= limit]_vars

\* A page held a card whose parsing raises ahead of a well-formed card of
\* 101: the call went on with the one stub of 101
C21_Witness ==
    /\ fetches = 1
    /\ s_pc = "sleep"
    /\ last_page = <<Card("102", FALSE, "broken", TRUE), Card("101", TRUE, "none", TRUE)>>
    /\ jobs = <<Stub("101", ViewUrl("101"))>>

\* C22 as stated: every search call of a run adds exactly one record to the
\* JobSearch table, holding the call's limit and result count, and leaves the
\* records already there as they are.
C22_Original ==
    [][Len(search_meta') = Len(search_meta) + 1 =>
          /\ Len(job_searches') = Len(job_searches) + 1
          /\ SubSeq(job_searches', 1, Len(job_searches)) = job_searches
          /\ job_searches'[Len(job_searches')].results_fetched
                 = search_meta'[Len(search_meta')].results]_vars

\* C23: when a run ends with a result, enriched_count + failed_count + the
\* number of pre-existing ids is the number of unique ids, and every id that
\* needed enrichment was processed once and is counted as enriched (it is
\* stored) or as failed (it is not), never both.
C23_CountsAddUp ==
    (pc = "done" /\ response.status = 200) =>
        /\ enriched_count + failed_count + Cardinality(existing_jobs) = Len(unique_job_ids)
        /\ Len(enrich_log) = Len(jobs_to_enrich)
        /\ \A k \in 1..Len(enrich_log) : enrich_log[k].job_id = jobs_to_enrich[k]
        /\ NoDup(jobs_to_enrich)
        /\ enriched_count = NumStored(enrich_log)
        /\ failed_count = NumFailed(enrich_log)
        /\ enriched_count + failed_count = Len(jobs_to_enrich)
        /\ response.has_counts =>
              /\ response.enriched = enriched_count
              /\ response.failed = failed_count
              /\ response.existing = Cardinality(existing_jobs)

\* A run of three unique ids ended: one was stored before, the create of one
\* raised, one was enriched
C23_Witness ==
    /\ pc = "done"
    /\ response.status = 200
    /\ Len(unique_job_ids) = 3
    /\ Cardinality(existing_jobs) = 1
    /\ Len(enrich_log) = 2
    /\ enrich_log[1].outcome = "raised"
    /\ enrich_log[2].outcome = "stored"
    /\ response.enriched = 1 /\ response.failed = 1 /\ response.existing = 1

\* C24: a step of an orchestration run leaves the store as it is or appends
\* one record for the id it is enriching, an id that was missing at the
\* existence check and is still missing; so the records that were stored at
\* the check are neither changed nor removed by the run.
C24_RunOnlyCreatesMissing ==
    /\ [][cfuVars' = cfuVars =>
             \/ store' = store
             \/ /\ pc = "enrich"
                /\ Len(store') = Len(store) + 1
                /\ SubSeq(store', 1, Len(store)) = store
                /\ store'[Len(store')].job_id = jobs_to_enrich[eidx + 1]
                /\ store'[Len(store')].job_id \notin existing_jobs
                /\ store'[Len(store')].job_id \notin StoredIds(store)]_vars
    /\ [](pc \in {"enrich", "enrich_sleep", "respond"} => existing_jobs \subseteq StoredIds(store))

\* The run found 102 stored at its check, enriched another id, and 102 is
\* still the first record
C24_Witness ==
    /\ pc = "done"
    /\ existing_jobs = {"102"}
    /\ enriched_count = 1
    /\ Len(store) = 2
    /\ store[1].job_id = "102"
    /\ enrich_log[1].outcome = "stored"

\* C25: the step in which a profile's search raises ends the run with the
\* error response, without jobs, and no step of a run from its start to the
\* end of its searches writes to the store
C25_SearchFailureLeavesStore ==
    [][/\ (pc = "search" /\ pc' = "done") =>
              /\ response'.status = 500
              /\ response'.jobs = <<>>
              /\ ~response'.has_counts
       /\ (runs' = runs + 1 \/ pc \in {"search", "check"}) => store' = store]_vars

\* The second profile's search failed after the first had brought a job, in
\* a run that started with listings in the store
C25_Witness ==
    /\ pc = "done"
    /\ response.status = 500
    /\ runs = 2
    /\ Len(store) >= 1
    /\ idx = 1
    /\ Len(jobs_by_id) = 1
    /\ enrich_log = <<>>

\* C27: with no other request writing, the response of a run carries as many
\* jobs as enriched_count + existing_count, and no job whose enrichment
\* failed is among them
C27_ReturnedIsEnrichedPlusExisting ==
    (pc = "done" /\ response.has_counts) =>
        /\ Len(response.jobs) = response.enriched + response.existing
        /\ \A k \in 1..Len(enrich_log) :
              enrich_log[k].outcome # "stored" =>
                  \A i \in 1..Len(response.jobs) :
                      response.jobs[i].job_id # enrich_log[k].job_id

\* Two listings are stored; the run saw one of them and one more id, whose
\* enrichment failed: one job is returned
C27_Witness ==
    /\ pc = "done"
    /\ response.has_counts
    /\ Len(store) = 2
    /\ response.existing = 1
    /\ response.failed = 1
    /\ response.enriched = 0
    /\ Len(response.jobs) = 1

\* C26: a search call ends, returning or raising. A page after which the call
\* goes on has added at least one new id, so the call makes at most
\* max(limit, 0) page fetches, and none when limit <= 0.
C26_TerminatesWithinLimitFetches ==
    /\ <>(s_pc \in {"returned", "raised"})
    /\ [](fetches <= IF limit > 0 THEN limit ELSE 0)
    /\ [](limit <= 0 => fetches = 0)
    /\ [](s_pc \in {"loop", "fetch", "sleep"} => fetches <= Len(jobs))
    /\ [][(s_pc = "fetch" /\ s_pc' = "sleep") =>
             /\ Len(jobs') > Len(jobs)
             /\ Cardinality(seen_job_ids') > Cardinality(seen_job_ids)]_vars

\* A call with limit 3 needed all three of its fetches: every page brought
\* one new id
C26_Witness ==
    /\ s_pc = "returned"
    /\ limit = 3
    /\ fetches = 3
    /\ ~fetch_failed
    /\ Len(jobs) = 3

\* C28: a create_job_from_url request for an id that is stored is answered
\* 200 with the stored record, makes no detail fetch and leaves the store as
\* it is, however often it is repeated: the id keeps its one record.
C28_StoredIdReturnedUnfetched ==
    /\ [](\A k \in 1..Len(cfu_log) :
              cfu_log[k].was_stored => ~cfu_log[k].fetched /\ cfu_log[k].status = 200)
    /\ [][(cfu_count' = cfu_count + 1 /\ cfu_log'[Len(cfu_log')].was_stored) =>
             /\ store' = store
             /\ cfu_pc' = "idle"
             /\ cfu_response' = JobResponse(Row(store, cfu_log'[Len(cfu_log')].job_id))
             /\ Cardinality(RowsOf(store', cfu_log'[Len(cfu_log')].job_id)) = 1]_vars

\* The first request for 102 fetched and stored it, the second got the
\* stored record back: one record, no second fetch
C28_Witness ==
    /\ Len(cfu_log) = 2
    /\ cfu_log[1].job_id = "102" /\ cfu_log[1].fetched /\ cfu_log[1].status = 200
    /\ cfu_log[2].job_id = "102" /\ cfu_log[2].was_stored /\ ~cfu_log[2].fetched
    /\ cfu_response.status = 200
    /\ cfu_response.jobs[1].job_id = "102"
    /\ Cardinality(RowsOf(store, "102")) = 1

\* C29: the cleanup command, when it deletes, removes exactly the listings no
\* application references at that moment and touches nothing else; with
\* --dry-run, or when its count finds nothing unused, it deletes nothing; and
\* the listing an application references is always there.
C29_CleanupDeletesUnreferenced ==
    /\ [][(cl_pc = "delete" /\ cl_pc' = "idle") =>
             /\ applications' = applications
             /\ IF cl_dry
                THEN store' = store /\ cl_deleted' = {}
                ELSE /\ cl_deleted' = StoredIds(store) \ ReferencedIds(applications)
                     /\ StoredIds(store') = StoredIds(store) \cap ReferencedIds(applications)
                     /\ Len(store') = Cardinality(StoredIds(store'))
                     /\ \A i \in 1..Len(store') : store'[i] = Row(store, store'[i].job_id)]_vars
    /\ [][cl_runs' = cl_runs + 1 =>
             /\ store' = store /\ applications' = applications
             /\ cl_pc' = "idle" <=> StoredIds(store) \subseteq ReferencedIds(applications)]_vars
    /\ [](\A i \in 1..Len(applications) :
             applications[i].job_id # None => applications[i].job_id \in StoredIds(store))

\* Of the listings 101 and 102 the cleanup deleted 102 and kept 101, which
\* an application references
C29_Witness ==
    /\ cl_pc = "idle"
    /\ cl_runs = 1
    /\ ~cl_dry
    /\ cl_deleted = {"102"}
    /\ StoredIds(store) = {"101"}
    /\ \E i \in 1..Len(applications) : applications[i].job_id = "101"

\* C30: no two applications have the same user and the same listing, however
\* the requests interleave; a request that ends in an error adds no
\* application, and the request of a user who already has an application for
\* its listing ends in the error 400 the next time it acts.
C30_OneApplicationPerUserAndListing ==
    /\ [](\A i, j \in 1..Len(applications) :
             (i # j /\ applications[i].job_id # None /\ applications[i].job_id = applications[j].job_id)
                 => applications[i].user # applications[j].user)
    /\ [][\A r \in AppSlots :
             /\ (app_req[r] # app_req'[r] /\ app_req'[r].status \in {400, 404})
                    => applications' = applications
             /\ (/\ app_req[r] # app_req'[r]
                 /\ app_req[r].pc \in {"check", "create"}
                 /\ app_req[r].job_id # None
                 /\ HasApplied(applications, app_req[r].user, app_req[r].job_id))
                    => app_req'[r].status = 400 /\ applications' = applications]_vars

\* Two requests of one user for listing 101 both passed the duplicate check;
\* the create of the first was answered 201, the create of the second 400
C30_Witness ==
    /\ cl_runs = 0
    /\ Len(applications) = 1
    /\ applications[1].job_id = "101"
    /\ app_req[1].status = 201
    /\ app_req[2].status = 400
    /\ app_req[2].error = "Failed to create job application"

====
